---- MODULE Spec2Model ----
(***************************************************************************)
(* Parent-level model of sage/rings/tate_algebra.py: the TateAlgebra       *)
(* factory (create_key / create_object behind a UniqueFactory cache), the  *)
(* parents TateAlgebra_generic and TateTermMonoid, their coercion tests,   *)
(* the pushout rule and gen().                                             *)
(*                                                                         *)
(* Python values are encoded with uniform shapes so they can be compared:  *)
(*   None            << >>            Some(v)   <<v>>                       *)
(*   a parent / ring [kind, base, ref]                                      *)
(*   an algebra      an index into the heap of constructed objects          *)
(***************************************************************************)
EXTENDS Integers, Sequences, FiniteSets, TLC

VARIABLES heap, cache, ret

vars == <<heap, cache, ret>>

-----------------------------------------------------------------------------
(* Bounds of the model *)

\* number of TateAlgebra keys that may be constructed (each adds two objects)
MaxAlgebras == 2
\* precision cap of the 2-adic ground ring Zp(2, BaseCap)
BaseCap == 2
\* gen() is called with indices in -MaxIndex .. MaxIndex
MaxIndex == 3

-----------------------------------------------------------------------------
(* Python encodings *)

None == << >>

Some(v) == <<v>>

-----------------------------------------------------------------------------
(* The p-adic base rings and fields (sage.rings.padics), an external       *)
(* collaborator: the 2-adics, their unramified extension of degree 2 and   *)
(* their Eisenstein extension by x^2 - 2, each as a ring and as a field.   *)

Exts == {"Qp", "Qq", "Eis"}

pAdicGeneric == [ext : Exts, fld : BOOLEAN]

\* ZZ, QQ and GF(2): rings that are not p-adic
OtherRings == [ext : {"ZZ", "QQ", "GF2"}, fld : {FALSE}]

NoBase == [ext |-> "none", fld |-> FALSE]

fraction_field(b) == [b EXCEPT !.fld = TRUE]

integer_ring(b) == [b EXCEPT !.fld = FALSE]

is_field(b) == b.fld

absolute_e(b) == IF b.ext = "Eis" THEN 2 ELSE 1

precision_cap(b) == BaseCap * absolute_e(b)

\* K is contained in L as an extension of the 2-adics
ExtLeq(k, l) == k = l \/ k = "Qp"

\* The parents handed to coercion tests and pushouts:
\*   kind "padic"  a p-adic ring or field (base)
\*   kind "ring"   ZZ, QQ or GF(2) (base)
\*   kind "alg"    the Tate algebra heap[ref]
\*   kind "monoid" the term monoid of heap[ref]
\*   kind "elem"   an element (not a parent) of heap[ref]
Padic(b) == [kind |-> "padic", base |-> b, ref |-> 0]

Ring(b) == [kind |-> "ring", base |-> b, ref |-> 0]

Alg(i) == [kind |-> "alg", base |-> NoBase, ref |-> i]

Monoid(i) == [kind |-> "monoid", base |-> NoBase, ref |-> i]

Elem(i) == [kind |-> "elem", base |-> NoBase, ref |-> i]

\* base.has_coerce_map_from(R) for a p-adic ring or field `base`
base_has_coerce_map_from(base, R) ==
    CASE R.kind = "padic" -> ExtLeq(R.base.ext, base.ext) /\ (R.base.fld => base.fld)
      [] R.kind = "ring"  -> R.base.ext = "ZZ" \/ (R.base.ext = "QQ" /\ base.fld)
      [] OTHER            -> FALSE

\* sage.categories.pushout.pushout of two p-adic rings or fields
pushout_defined(b, r) == ExtLeq(b.ext, r.ext) \/ ExtLeq(r.ext, b.ext)

pushout(b, r) ==
    [ext |-> IF ExtLeq(b.ext, r.ext) THEN r.ext ELSE b.ext,
     fld |-> b.fld \/ r.fld]

-----------------------------------------------------------------------------
(* TateAlgebraFactory.create_key *)

\* TermOrder(order, ngens): term orders compare and hash by their name, and
\* TermOrder(o, n) of a TermOrder o is o
TermOrder(order, ngens) == order

\* [ x ] * n
Repeat(x, n) == [i \in 1..n |-> x]

\* create_key without `base = base.fraction_field()`
create_key_keeps_base(base, prec, log_radii, names, order) ==
    IF base.kind # "padic" THEN [err |-> "TypeError", key |-> None]
    ELSE IF names = None THEN [err |-> "ValueError", key |-> None]
    ELSE LET field  == base.base
             nms    == names[1]
             ngens  == Len(nms)
         IN  IF log_radii.islist /\ Len(log_radii.val) # ngens
             THEN [err |-> "ValueError", key |-> None]
             ELSE LET radii == IF log_radii.islist THEN log_radii.val
                                ELSE Repeat(log_radii.val[1], ngens)
                      cap   == IF prec = None THEN precision_cap(field)
                                ELSE prec[1]
                  IN  [err |-> "none",
                       key |-> Some(<<field, cap, radii, nms,
                                      TermOrder(order, ngens)>>)]

\* create_key that puts a scalar log_radii into the key as it was given
create_key_no_broadcast(base, prec, log_radii, names, order) ==
    IF base.kind # "padic" THEN [err |-> "TypeError", key |-> None]
    ELSE IF names = None THEN [err |-> "ValueError", key |-> None]
    ELSE LET field  == fraction_field(base.base)
             nms    == names[1]
             ngens  == Len(nms)
             radii  == log_radii.val
             cap    == IF prec = None THEN precision_cap(field) ELSE prec[1]
         IN  IF log_radii.islist /\ Len(radii) # ngens
             THEN [err |-> "ValueError", key |-> None]
             ELSE [err |-> "none",
                   key |-> Some(<<field, cap, radii, nms,
                                  TermOrder(order, ngens)>>)]

\* create_key without the test on len(log_radii)
create_key_any_length(base, prec, log_radii, names, order) ==
    IF base.kind # "padic" THEN [err |-> "TypeError", key |-> None]
    ELSE IF names = None THEN [err |-> "ValueError", key |-> None]
    ELSE LET field  == fraction_field(base.base)
             nms    == names[1]
             ngens  == Len(nms)
             radii  == IF log_radii.islist THEN log_radii.val
                       ELSE Repeat(log_radii.val[1], ngens)
             cap    == IF prec = None THEN precision_cap(field) ELSE prec[1]
         IN  [err |-> "none",
              key |-> Some(<<field, cap, radii, nms, TermOrder(order, ngens)>>)]

\* log_radii is [islist, val]: an integer r is [FALSE, <<r>>], a list or
\* tuple l is [TRUE, l]
create_key(base, prec, log_radii, names, order) ==
    IF base.kind # "padic" THEN [err |-> "TypeError", key |-> None]
    ELSE IF names = None THEN [err |-> "ValueError", key |-> None]
    ELSE LET field  == fraction_field(base.base)
             nms    == names[1]
             ngens  == Len(nms)
         IN  IF log_radii.islist /\ Len(log_radii.val) # ngens
             THEN [err |-> "ValueError", key |-> None]
             ELSE LET radii == IF log_radii.islist THEN log_radii.val
                                ELSE Repeat(log_radii.val[1], ngens)
                      cap   == IF prec = None THEN precision_cap(field)
                                ELSE prec[1]
                  IN  [err |-> "none",
                       key |-> Some(<<field, cap, radii, nms,
                                      TermOrder(order, ngens)>>)]

-----------------------------------------------------------------------------
(* TateAlgebra_generic.__init__ and the accessors *)

\* __init__ handing `field` to CommutativeAlgebra.__init__ whatever `integral`
TateAlgebra_attributes_field_base(field, prec, log_radii, names, order, integral, twin) ==
    [_field        |-> field,
     _cap          |-> prec,
     _log_radii    |-> log_radii,
     _names        |-> names,
     _ngens        |-> Len(names),
     _order        |-> order,
     _integral     |-> integral,
     _base         |-> field,
     _integer_ring |-> twin]

\* The attributes __init__ sets on the object allocated at heap index self;
\* twin is the index stored in _integer_ring.
TateAlgebra_attributes(field, prec, log_radii, names, order, integral, twin) ==
    [_field        |-> field,
     _cap          |-> prec,
     _log_radii    |-> log_radii,
     _names        |-> names,
     _ngens        |-> Len(names),
     _order        |-> order,
     _integral     |-> integral,
     _base         |-> IF integral THEN integer_ring(field) ELSE field,
     _integer_ring |-> twin]

\* __init__ that builds no twin: every algebra is its own integer ring
TateAlgebra_generic_own_twin(h, field, prec, log_radii, names, order, integral) ==
    Append(h, TateAlgebra_attributes(field, prec, log_radii, names, order,
                                     integral, Len(h) + 1))

\* TateAlgebra_generic(field, prec, log_radii, names, order, integral) run on
\* heap h: the new object is h[Len(h) + 1]; a non-integral algebra builds its
\* integral twin, allocated right after it, before __init__ returns.
TateAlgebra_generic(h, field, prec, log_radii, names, order, integral) ==
    LET self == Len(h) + 1
    IN  IF integral
        THEN Append(h, TateAlgebra_attributes(field, prec, log_radii, names,
                                              order, TRUE, self))
        ELSE Append(Append(h,
                 TateAlgebra_attributes(field, prec, log_radii, names,
                                        order, FALSE, self + 1)),
                 TateAlgebra_attributes(field, prec, log_radii, names,
                                        order, TRUE, self + 1))

\* TateAlgebraFactory.create_object
create_object(h, key) ==
    TateAlgebra_generic(h, key[1], key[2], key[3], key[4], key[5], FALSE)

\* UniqueFactory.__call__ / get_object: look the key up in the cache, build
\* and register the object when it is absent.
get_object(h, c, key) ==
    IF \E e \in c : e.key = key
    THEN [heap |-> h, cache |-> c, err |-> "none",
          out |-> (CHOOSE e \in c : e.key = key).obj]
    ELSE [heap |-> create_object(h, key),
          cache |-> c \cup {[key |-> key, obj |-> Len(h) + 1]},
          err |-> "none", out |-> Len(h) + 1]

\* TateAlgebra(base, prec, log_radii, names, order)
TateAlgebra(h, c, base, prec, log_radii, names, order) ==
    LET k == create_key(base, prec, log_radii, names, order)
    IN  IF k.err # "none"
        THEN [heap |-> h, cache |-> c, err |-> k.err, out |-> 0]
        ELSE get_object(h, c, k.key[1])

\* TateTermMonoid.__init__: the attributes of the monoid of terms of h[A]
TateTermMonoid(h, A) ==
    [_base           |-> h[A]._base,
     _field          |-> h[A]._field,
     _names          |-> h[A]._names,
     _ngens          |-> Len(h[A]._names),
     _log_radii      |-> h[A]._log_radii,
     _order          |-> h[A]._order,
     _parent_algebra |-> A]

\* R.base_ring(), R.variable_names(), R.term_order(), R.log_radii() for R a
\* Tate algebra or a term monoid
base_ring(h, R) ==
    IF R.kind = "monoid" THEN TateTermMonoid(h, R.ref)._base ELSE h[R.ref]._base

variable_names(h, R) ==
    IF R.kind = "monoid" THEN TateTermMonoid(h, R.ref)._names ELSE h[R.ref]._names

term_order(h, R) ==
    IF R.kind = "monoid" THEN TateTermMonoid(h, R.ref)._order ELSE h[R.ref]._order

log_radii(h, R) ==
    IF R.kind = "monoid" THEN TateTermMonoid(h, R.ref)._log_radii
    ELSE h[R.ref]._log_radii

algebra_of_series(h, R) == Alg(TateTermMonoid(h, R.ref)._parent_algebra)

-----------------------------------------------------------------------------
(* Coercion tests.  A result is "True", "False", "None" (no return          *)
(* statement reached) or "IndexError" (a sequence indexed out of range).   *)

\* the loop comparing logs[i] with Rlogs[i], the ratio forgotten
radii_loop_no_ratio(logs, Rlogs, ratio, i, ngens) ==
    IF \E j \in i..ngens : j > Len(logs) \/ j > Len(Rlogs) THEN "IndexError"
    ELSE IF \E j \in i..ngens : logs[j] # Rlogs[j] THEN "False"
    ELSE "True"

RECURSIVE radii_loop(_, _, _, _, _)
\* for i in range(ngens): if logs[i] != ratio * Rlogs[i]: return False
radii_loop(logs, Rlogs, ratio, i, ngens) ==
    IF i > ngens THEN "True"
    ELSE IF i > Len(logs) \/ i > Len(Rlogs) THEN "IndexError"
    ELSE IF logs[i] # ratio * Rlogs[i] THEN "False"
    ELSE radii_loop(logs, Rlogs, ratio, i + 1, ngens)

\* _coerce_map_from_ without `self._names == R.variable_names()`
TateAlgebra_coerce_map_from_any_names(h, self, R) ==
    LET base == h[self]._base
    IN  IF base_has_coerce_map_from(base, R) THEN "True"
        ELSE IF R.kind \in {"monoid", "alg"}
        THEN LET Rbase == base_ring(h, R)
                 logs  == h[self]._log_radii
                 Rlogs == log_radii(h, R)
             IN  IF /\ base_has_coerce_map_from(base, Padic(Rbase))
                    /\ h[self]._order = term_order(h, R)
                 THEN radii_loop(logs, Rlogs,
                                 absolute_e(base) \div absolute_e(Rbase),
                                 1, h[self]._ngens)
                 ELSE "False"
        ELSE "False"

\* _coerce_map_from_ that also wants the precision caps to be equal
TateAlgebra_coerce_map_from_same_cap(h, self, R) ==
    LET base == h[self]._base
    IN  IF base_has_coerce_map_from(base, R) THEN "True"
        ELSE IF R.kind \in {"monoid", "alg"}
        THEN LET Rbase == base_ring(h, R)
                 logs  == h[self]._log_radii
                 Rlogs == log_radii(h, R)
             IN  IF /\ base_has_coerce_map_from(base, Padic(Rbase))
                    /\ h[self]._names = variable_names(h, R)
                    /\ h[self]._order = term_order(h, R)
                    /\ h[self]._cap = h[R.ref]._cap
                 THEN radii_loop(logs, Rlogs,
                                 absolute_e(base) \div absolute_e(Rbase),
                                 1, h[self]._ngens)
                 ELSE "False"
        ELSE "False"

\* _coerce_map_from_ without base.has_coerce_map_from(Rbase)
TateAlgebra_coerce_map_from_any_base(h, self, R) ==
    LET base == h[self]._base
    IN  IF base_has_coerce_map_from(base, R) THEN "True"
        ELSE IF R.kind \in {"monoid", "alg"}
        THEN LET Rbase == base_ring(h, R)
                 logs  == h[self]._log_radii
                 Rlogs == log_radii(h, R)
             IN  IF /\ h[self]._names = variable_names(h, R)
                    /\ h[self]._order = term_order(h, R)
                 THEN radii_loop(logs, Rlogs,
                                 absolute_e(base) \div absolute_e(Rbase),
                                 1, h[self]._ngens)
                 ELSE "False"
        ELSE "False"

\* TateAlgebra_generic._coerce_map_from_
TateAlgebra_coerce_map_from(h, self, R) ==
    LET base == h[self]._base
    IN  IF base_has_coerce_map_from(base, R) THEN "True"
        ELSE IF R.kind \in {"monoid", "alg"}
        THEN LET Rbase == base_ring(h, R)
                 logs  == h[self]._log_radii
                 Rlogs == log_radii(h, R)
             IN  IF /\ base_has_coerce_map_from(base, Padic(Rbase))
                    /\ h[self]._names = variable_names(h, R)
                    /\ h[self]._order = term_order(h, R)
                 THEN radii_loop(logs, Rlogs,
                                 absolute_e(base) \div absolute_e(Rbase),
                                 1, h[self]._ngens)
                 ELSE "False"
        ELSE "False"

\* Parent.has_coerce_map_from for a Tate algebra h[self]: the identity when S
\* is the algebra itself, otherwise what _coerce_map_from_ finds; something
\* that is not a parent has no coercion.
has_coerce_map_from(h, self, S) ==
    IF S.kind = "elem" THEN "False"
    ELSE IF S = Alg(self) THEN "True"
    ELSE TateAlgebra_coerce_map_from(h, self, S)

\* the monoid's test with isinstance(R, (TateTermMonoid, TateAlgebra_generic))
TateTermMonoid_coerce_map_from_algebras(h, A, R) ==
    LET T    == TateTermMonoid(h, A)
        base == T._base
    IN  IF base_has_coerce_map_from(base, R) THEN "True"
        ELSE IF R.kind \in {"monoid", "alg"}
        THEN has_coerce_map_from(h, T._parent_algebra, Alg(R.ref))
        ELSE IF R.kind = "elem"
        THEN has_coerce_map_from(h, T._parent_algebra, R)
        ELSE "None"

\* TateTermMonoid._coerce_map_from_ for the monoid of terms of h[A]
TateTermMonoid_coerce_map_from(h, A, R) ==
    LET T    == TateTermMonoid(h, A)
        base == T._base
    IN  IF base_has_coerce_map_from(base, R) THEN "True"
        ELSE IF R.kind = "monoid"
        THEN has_coerce_map_from(h, T._parent_algebra, algebra_of_series(h, R))
        ELSE IF R.kind = "elem"
        THEN has_coerce_map_from(h, T._parent_algebra, R)
        ELSE "None"

-----------------------------------------------------------------------------
(* Pushout and generators *)

\* the radii handed over unscaled
scale_radii_unscaled(ratio, radii) == radii

\* [ ratio * r for r in self._log_radii ]
scale_radii(ratio, radii) == [i \in 1..Len(radii) |-> ratio * radii[i]]

\* _pushout_ choosing the integral subring by self._integral
TateAlgebra_pushout_by_integral(h, c, self, R) ==
    IF R.kind = "padic"
    THEN LET base  == pushout(h[self]._base, R.base)
             ratio == absolute_e(base) \div absolute_e(h[self]._base)
             cap   == ratio * h[self]._cap
             radii == scale_radii(ratio, h[self]._log_radii)
             A     == TateAlgebra(h, c, Padic(base), Some(cap),
                                  [islist |-> TRUE, val |-> radii],
                                  Some(h[self]._names), h[self]._order)
         IN  IF A.err # "none" THEN A
             ELSE IF ~h[self]._integral THEN A
             ELSE [A EXCEPT !.out = A.heap[A.out]._integer_ring]
    ELSE [heap |-> h, cache |-> c, err |-> "none", out |-> 0]

\* _pushout_ with the test on base.is_field() inverted
TateAlgebra_pushout_inverted(h, c, self, R) ==
    IF R.kind = "padic"
    THEN LET base  == pushout(h[self]._base, R.base)
             ratio == absolute_e(base) \div absolute_e(h[self]._base)
             cap   == ratio * h[self]._cap
             radii == scale_radii(ratio, h[self]._log_radii)
             A     == TateAlgebra(h, c, Padic(base), Some(cap),
                                  [islist |-> TRUE, val |-> radii],
                                  Some(h[self]._names), h[self]._order)
         IN  IF A.err # "none" THEN A
             ELSE IF ~is_field(base) THEN A
             ELSE [A EXCEPT !.out = A.heap[A.out]._integer_ring]
    ELSE [heap |-> h, cache |-> c, err |-> "none", out |-> 0]

\* _pushout_ without the isinstance(R, pAdicGeneric) guard: pushout(base, R)
\* raises for an R that is no p-adic ring
TateAlgebra_pushout_unguarded(h, c, self, R) ==
    IF R.kind = "padic"
    THEN LET base  == pushout(h[self]._base, R.base)
             ratio == absolute_e(base) \div absolute_e(h[self]._base)
             cap   == ratio * h[self]._cap
             radii == scale_radii(ratio, h[self]._log_radii)
             A     == TateAlgebra(h, c, Padic(base), Some(cap),
                                  [islist |-> TRUE, val |-> radii],
                                  Some(h[self]._names), h[self]._order)
         IN  IF A.err # "none" THEN A
             ELSE IF is_field(base) THEN A
             ELSE [A EXCEPT !.out = A.heap[A.out]._integer_ring]
    ELSE [heap |-> h, cache |-> c, err |-> "CoercionException", out |-> 0]

\* TateAlgebra_generic._pushout_; out = 0 is None
TateAlgebra_pushout(h, c, self, R) ==
    IF R.kind = "padic"
    THEN LET base  == pushout(h[self]._base, R.base)
             ratio == absolute_e(base) \div absolute_e(h[self]._base)
             cap   == ratio * h[self]._cap
             radii == scale_radii(ratio, h[self]._log_radii)
             A     == TateAlgebra(h, c, Padic(base), Some(cap),
                                  [islist |-> TRUE, val |-> radii],
                                  Some(h[self]._names), h[self]._order)
         IN  IF A.err # "none" THEN A
             ELSE IF is_field(base) THEN A
             ELSE [A EXCEPT !.out = A.heap[A.out]._integer_ring]
    ELSE [heap |-> h, cache |-> c, err |-> "none", out |-> 0]

\* self._gens: generator i is the i-th polynomial variable, shifted by
\* ceil(log_radii[i]) in the integral twin
gens(h, self) ==
    [i \in 1..h[self]._ngens |->
        [var   |-> i - 1,
         shift |-> IF h[self]._integral THEN h[self]._log_radii[i] ELSE 0]]

\* TateAlgebra_generic.gen: self._gens[n] with Python's list indexing, where
\* -len <= n < 0 counts from the end and anything else raises IndexError,
\* turned into ValueError("generator not defined")
gen(h, self, n) ==
    LET g   == gens(h, self)
        len == Len(g)
    IN  IF 0 <= n /\ n < len THEN [err |-> "none", gen |-> Some(g[n + 1])]
        ELSE IF -len <= n /\ n < 0
        THEN [err |-> "none", gen |-> Some(g[len + n + 1])]
        ELSE [err |-> "ValueError", gen |-> None]

-----------------------------------------------------------------------------
(* Inputs *)

Names == {<<"x">>, <<"x", "y">>, <<"y", "x">>}

Orders == {"degrevlex", "lex"}

PrecInputs == {None, Some(BaseCap)}

Scalar(r) == [islist |-> FALSE, val |-> <<r>>]

List(l) == [islist |-> TRUE, val |-> l]

RadiiInputs == {Scalar(1), List(<<1>>), List(<<1, 1>>), List(<<0, 1>>)}

\* calls that pass create_key
ValidArgs ==
    {a \in [base : {Padic(b) : b \in pAdicGeneric}, prec : PrecInputs,
            log_radii : RadiiInputs, names : {Some(n) : n \in Names},
            order : Orders] :
        a.log_radii.islist => Len(a.log_radii.val) = Len(a.names[1])}

\* calls among which create_key rejects the base, the names or the radii
EdgeArgs ==
    [base : {Ring([ext |-> "ZZ", fld |-> FALSE]),
             Padic([ext |-> "Qp", fld |-> FALSE])},
     prec : {None},
     log_radii : {Scalar(1), List(<<1>>), List(<<1, 1>>)},
     names : {None, Some(<<"x">>), Some(<<"x", "y">>)},
     order : {"degrevlex"}]

NoParent == [kind |-> "none", base |-> NoBase, ref |-> 0]

\* the parents a coercion test or a pushout may be handed in heap h
Parents(h) ==
    {Padic(b) : b \in pAdicGeneric} \cup {Ring(b) : b \in OtherRings}
    \cup {Alg(i) : i \in 1..Len(h)} \cup {Monoid(i) : i \in 1..Len(h)}

-----------------------------------------------------------------------------
(* The state machine.  heap holds every object constructed so far, cache   *)
(* is the factory's registry, ret is the outcome handed to the caller of   *)
(* the operation in progress ("idle" between two operations).              *)

Idle ==
    [op |-> "idle", self |-> 0, R |-> NoParent, args |-> None, n |-> 0,
     out |-> 0, ans |-> "", gen |-> None, err |-> "none"]

Init ==
    /\ heap = << >>
    /\ cache = {}
    /\ ret = Idle

\* A = TateAlgebra(base, prec, log_radii, names, order)
Construct(a) ==
    /\ ret = Idle
    /\ LET r == TateAlgebra(heap, cache, a.base, a.prec, a.log_radii,
                            a.names, a.order)
       IN  /\ Len(r.heap) <= 2 * MaxAlgebras
           /\ heap' = r.heap
           /\ cache' = r.cache
           /\ ret' = [Idle EXCEPT !.op = "TateAlgebra", !.args = Some(a),
                                  !.out = r.out, !.err = r.err]

\* heap[self]._coerce_map_from_(R)
CoerceMapFrom(self, R) ==
    /\ ret = Idle
    /\ LET r == TateAlgebra_coerce_map_from(heap, self, R)
       IN  ret' = [Idle EXCEPT !.op = "_coerce_map_from_", !.self = self,
                               !.R = R,
                               !.ans = IF r = "IndexError" THEN "" ELSE r,
                               !.err = IF r = "IndexError" THEN r ELSE "none"]
    /\ UNCHANGED <<heap, cache>>

\* heap[self].monoid_of_terms()._coerce_map_from_(R)
MonoidCoerceMapFrom(self, R) ==
    /\ ret = Idle
    /\ LET r == TateTermMonoid_coerce_map_from(heap, self, R)
       IN  ret' = [Idle EXCEPT !.op = "monoid._coerce_map_from_",
                               !.self = self, !.R = R,
                               !.ans = IF r = "IndexError" THEN "" ELSE r,
                               !.err = IF r = "IndexError" THEN r ELSE "none"]
    /\ UNCHANGED <<heap, cache>>

\* heap[self]._pushout_(R)
Pushout(self, R) ==
    /\ ret = Idle
    /\ R.kind = "padic" => pushout_defined(heap[self]._base, R.base)
    /\ LET r == TateAlgebra_pushout(heap, cache, self, R)
       IN  /\ Len(r.heap) <= 2 * MaxAlgebras
           /\ heap' = r.heap
           /\ cache' = r.cache
           /\ ret' = [Idle EXCEPT !.op = "_pushout_", !.self = self, !.R = R,
                                  !.out = r.out, !.err = r.err]

\* heap[self].gen(n)
Gen(self, n) ==
    /\ ret = Idle
    /\ LET r == gen(heap, self, n)
       IN  ret' = [Idle EXCEPT !.op = "gen", !.self = self, !.n = n,
                               !.gen = r.gen, !.err = r.err]
    /\ UNCHANGED <<heap, cache>>

\* the caller takes the outcome; the next operation may start
Return ==
    /\ ret # Idle
    /\ ret' = Idle
    /\ UNCHANGED <<heap, cache>>

Next ==
    \/ \E a \in ValidArgs \cup EdgeArgs : Construct(a)
    \/ \E self \in 1..Len(heap) : \E R \in Parents(heap) : CoerceMapFrom(self, R)
    \/ \E self \in 1..Len(heap) : \E R \in Parents(heap) : MonoidCoerceMapFrom(self, R)
    \/ \E self \in 1..Len(heap) : \E R \in Parents(heap) : Pushout(self, R)
    \/ \E self \in 1..Len(heap) : \E n \in -MaxIndex..MaxIndex : Gen(self, n)
    \/ Return

Spec == Init /\ [][Next]_vars

-----------------------------------------------------------------------------
(* Properties *)

\* the algebras the constructor has returned: the non-integral objects
Constructed == {i \in 1..Len(heap) : ~heap[i]._integral}

\* (base, prec, log_radii, names, order) as the object heap[i] holds them
KeyOf(i) ==
    <<heap[i]._field, heap[i]._cap, heap[i]._log_radii, heap[i]._names,
      heap[i]._order>>

\* the key of a call as section 4.1 of the specification normalises it
NormalizedKey(a) ==
    LET field == [ext |-> a.base.base.ext, fld |-> TRUE]
        n     == Len(a.names[1])
    IN  <<field,
          IF a.prec = None THEN BaseCap * absolute_e(field) ELSE a.prec[1],
          IF a.log_radii.islist THEN a.log_radii.val
          ELSE [i \in 1..n |-> a.log_radii.val[1]],
          a.names[1], a.order>>

Called(op) == ret.op = op /\ ret.err = "none"

\* C1: a successful constructor call returns the instance that carries the
\* normalised key of its arguments, no two instances the constructor has
\* returned carry equal keys, and the registry holds at most one instance
\* per key: calls with equal normalised keys return the identical instance.
C1_Canonical ==
    /\ Called("TateAlgebra") =>
          /\ ret.out \in Constructed
          /\ KeyOf(ret.out) = NormalizedKey(ret.args[1])
    /\ \A i, j \in Constructed : KeyOf(i) = KeyOf(j) => i = j
    /\ \A e, f \in cache : e.key = f.key => e.obj = f.obj

\* a second algebra exists and a call handing over a ring, not its fraction
\* field, got the first instance back
C1_Witness ==
    /\ Called("TateAlgebra")
    /\ Len(heap) = 4
    /\ ret.out = 1
    /\ ~ret.args[1].base.base.fld

\* r_i == e * s_i for every i
RadiiMatch(r, s, e) ==
    /\ Len(r) = Len(s)
    /\ \A i \in 1..Len(r) : r[i] = e * s[i]

\* C2: for algebras B and A with the same names and term order, the base of
\* B accepting coercion from the base of A and e the quotient of their
\* absolute ramification indices, B._coerce_map_from_(A) is true if and only
\* if r_i == e * s_i for every i.
C2_RatioLaw ==
    (Called("_coerce_map_from_") /\ ret.R.kind = "alg") =>
        LET B == heap[ret.self]
            A == heap[ret.R.ref]
        IN  (/\ base_has_coerce_map_from(B._base, Padic(A._base))
             /\ B._names = A._names
             /\ B._order = A._order)
            => (ret.ans = "True" <=>
                    RadiiMatch(B._log_radii, A._log_radii,
                               absolute_e(B._base) \div absolute_e(A._base)))

\* an algebra over the Eisenstein extension field accepted an algebra over
\* the 2-adic field whose non-zero radius is half its own
C2_Witness ==
    /\ Called("_coerce_map_from_")
    /\ ret.R.kind = "alg"
    /\ ret.ans = "True"
    /\ heap[ret.self]._base = [ext |-> "Eis", fld |-> TRUE]
    /\ heap[ret.R.ref]._base = [ext |-> "Qp", fld |-> TRUE]
    /\ heap[ret.self]._names = heap[ret.R.ref]._names
    /\ \E i \in 1..heap[ret.self]._ngens : heap[ret.self]._log_radii[i] = 2

\* C3: an algebra or a term monoid accepts no coercion from an algebra or a
\* term monoid whose variable names differ, in content or in order.
C3_NamesDiffer ==
    (/\ ret.op \in {"_coerce_map_from_", "monoid._coerce_map_from_"}
     /\ ret.R.kind \in {"alg", "monoid"}
     /\ heap[ret.self]._names # heap[ret.R.ref]._names)
    => (ret.err = "none" /\ ret.ans # "True")

\* two algebras (two monoids) alike but for the order of their names
AlikeButNames(i, j) ==
    /\ heap[i]._names # heap[j]._names
    /\ heap[i]._base = heap[j]._base
    /\ heap[i]._cap = heap[j]._cap
    /\ heap[i]._log_radii = heap[j]._log_radii
    /\ heap[i]._order = heap[j]._order

\* a monoid of terms in (x, y) refused the monoid in (y, x) of an algebra
\* with the same base, precision, radii and term order
C3_Witness ==
    /\ Called("monoid._coerce_map_from_")
    /\ ret.R.kind = "monoid"
    /\ ret.ans = "False"
    /\ heap[ret.self]._names = <<"x", "y">>
    /\ heap[ret.R.ref]._names = <<"y", "x">>
    /\ AlikeButNames(ret.self, ret.R.ref)

\* absolute_e(new_base) // absolute_e(base) of the pushout in ret
PushoutRatio ==
    absolute_e(pushout(heap[ret.self]._base, ret.R.base))
        \div absolute_e(heap[ret.self]._base)

\* C4: the pushout of an algebra with precision cap p and radii (r_i)
\* against a p-adic ring or field has precision cap e * p, radii (e * r_i)
\* and the names and term order of the original.
C4_PushoutScaling ==
    (Called("_pushout_") /\ ret.R.kind = "padic") =>
        /\ ret.out \in 1..Len(heap)
        /\ LET S == heap[ret.self]
               P == heap[ret.out]
           IN  /\ P._cap = PushoutRatio * S._cap
               /\ Len(P._log_radii) = Len(S._log_radii)
               /\ \A i \in 1..Len(S._log_radii) :
                      P._log_radii[i] = PushoutRatio * S._log_radii[i]
               /\ P._names = S._names
               /\ P._order = S._order

\* an algebra over the 2-adics with a non-zero radius was pushed out
\* against the Eisenstein extension, of ramification ratio 2
C4_Witness ==
    /\ Called("_pushout_")
    /\ ret.R.kind = "padic"
    /\ PushoutRatio = 2
    /\ ret.out # 0
    /\ \E i \in 1..heap[ret.self]._ngens : heap[ret.self]._log_radii[i] = 1

\* the full algebra A that _pushout_ built or found for the pushout in ret:
\* the constructed algebra over the fraction field of new_base that the
\* result is, or whose integral subring the result is
FreshAlgebras ==
    {A \in Constructed :
        /\ heap[A]._field =
              fraction_field(pushout(heap[ret.self]._base, ret.R.base))
        /\ ret.out \in {A, heap[A]._integer_ring}}

\* C5 as stated: the pushout of an integral-subring view is the integral
\* subring of the freshly built full algebra, the pushout of a full algebra
\* is the freshly built full algebra.
C5_ViewFollowsSelf ==
    (Called("_pushout_") /\ ret.R.kind = "padic") =>
        /\ ret.out \in 1..Len(heap)
        /\ FreshAlgebras # {}
        /\ heap[ret.out]._integral <=> heap[ret.self]._integral

\* C5 as amended: the pushout is the integral subring of the freshly built
\* full algebra exactly when the structure is an integral-subring view and R
\* is a p-adic ring that is not a field; for a full algebra, and against a
\* p-adic field, it is the freshly built full algebra itself.
C5_ViewFollowsBase ==
    (Called("_pushout_") /\ ret.R.kind = "padic") =>
        /\ ret.out \in 1..Len(heap)
        /\ FreshAlgebras # {}
        /\ heap[ret.out]._integral <=>
              (heap[ret.self]._integral /\ ~is_field(ret.R.base))

\* an integral-subring view was pushed out against a p-adic field and the
\* result is a full algebra
C5_Witness ==
    /\ Called("_pushout_")
    /\ ret.R.kind = "padic"
    /\ is_field(ret.R.base)
    /\ heap[ret.self]._integral
    /\ ret.out \in Constructed

\* C6: both operands of a pushout embed into it: the result accepts coercion
\* from the structure pushed out and from the ring R.
C6_PushoutEmbeds ==
    (Called("_pushout_") /\ ret.out # 0) =>
        /\ TateAlgebra_coerce_map_from(heap, ret.out, Alg(ret.self)) = "True"
        /\ TateAlgebra_coerce_map_from(heap, ret.out, ret.R) = "True"

\* an integral-subring view with a non-zero radius was pushed out against
\* the Eisenstein extension ring, into another structure
C6_Witness ==
    /\ Called("_pushout_")
    /\ ret.out # 0
    /\ ret.out # ret.self
    /\ heap[ret.self]._integral
    /\ ret.R.base = [ext |-> "Eis", fld |-> FALSE]
    /\ PushoutRatio = 2
    /\ \E i \in 1..heap[ret.self]._ngens : heap[ret.self]._log_radii[i] # 0

\* C7: gen(index) returns the index-th generator when 0 <= index < n and
\* fails with "generator not defined" for every other index.
C7_GenIndex ==
    ret.op = "gen" =>
        IF 0 <= ret.n /\ ret.n < heap[ret.self]._ngens
        THEN ret.err = "none" /\ ret.gen = Some(gens(heap, ret.self)[ret.n + 1])
        ELSE ret.err = "ValueError"

\* C8: for an algebra A the constructor returns, A.base_ring() is the base
\* field, A.integer_ring().base_ring() is the integer ring of that field, and
\* A.integer_ring() has the names and the term order of A.
C8_IntegralTwin ==
    Called("TateAlgebra") =>
        LET A     == heap[ret.out]
            AA    == heap[A._integer_ring]
            field == fraction_field(ret.args[1].base.base)
        IN  /\ A._field = field
            /\ A._base = field
            /\ AA._base = integer_ring(field)
            /\ AA._base # A._base
            /\ AA._names = A._names
            /\ AA._order = A._order

\* the constructor was handed a p-adic ring with the term order lex and
\* returned an algebra whose twin is another object
C8_Witness ==
    /\ Called("TateAlgebra")
    /\ ~ret.args[1].base.base.fld
    /\ ret.args[1].order = "lex"
    /\ heap[ret.out]._integer_ring # ret.out

CoercionOps == {"_coerce_map_from_", "monoid._coerce_map_from_"}

C10_MonoidCoercion ==
    Called("monoid._coerce_map_from_") =>
        /\ ~base_has_coerce_map_from(TateTermMonoid(heap, ret.self)._base, ret.R)
              => (ret.ans = "True" <=>
                     /\ ret.R.kind = "monoid"
                     /\ TateAlgebra_coerce_map_from(heap, ret.self,
                                                    Alg(ret.R.ref)) = "True")
        /\ ret.R.kind = "alg" => ret.ans # "True"

\* the monoid of an algebra over the unramified extension accepted the
\* monoid of an algebra over the 2-adics
C10_Witness ==
    /\ Called("monoid._coerce_map_from_")
    /\ ret.R.kind = "monoid"
    /\ ret.ans = "True"
    /\ heap[ret.self]._field.ext = "Qq"
    /\ heap[ret.R.ref]._field.ext = "Qp"

\* C11: the constructor fails with TypeError when the base is no p-adic
\* ring or field, with ValueError when (the base being p-adic) the names are
\* omitted, and with ValueError when (base and names being given) the radii
\* are a sequence of another length than the names; a failing call returns
\* nothing, constructs nothing and leaves the registry as it was.
C11_ConstructorErrors ==
    /\ [](ret.op = "TateAlgebra" =>
            LET a == ret.args[1]
            IN  /\ a.base.kind # "padic" => ret.err = "TypeError"
                /\ (a.base.kind = "padic" /\ a.names = None)
                      => ret.err = "ValueError"
                /\ (/\ a.base.kind = "padic"
                    /\ a.names # None
                    /\ a.log_radii.islist
                    /\ Len(a.log_radii.val) # Len(a.names[1]))
                      => ret.err = "ValueError"
                /\ ret.err # "none" => ret.out = 0)
    /\ [][(ret'.op = "TateAlgebra" /\ ret'.err # "none")
            => (heap' = heap /\ cache' = cache)]_vars

\* with an algebra constructed, a call with two radii for one name failed
C11_Witness ==
    /\ ret.op = "TateAlgebra"
    /\ ret.err = "ValueError"
    /\ ret.args[1].names = Some(<<"x">>)
    /\ ret.args[1].log_radii = List(<<1, 1>>)
    /\ Len(heap) = 2
    /\ Cardinality(cache) = 1

\* the algebra objects that object i holds a reference to: its _integer_ring
\* and the _parent_algebra of its term monoid
AlgebraRefs(i) ==
    {heap[i]._integer_ring, TateTermMonoid(heap, i)._parent_algebra}

Interchangeable(a) ==
    LET field  == fraction_field(a.base.base)
        n      == Len(a.names[1])
        r      == a.log_radii.val[1]
    IN  [base : {Padic(field), Padic(integer_ring(field))},
         prec : {a.prec} \cup
                (IF a.prec \in {None, Some(precision_cap(field))}
                 THEN {None, Some(precision_cap(field))} ELSE {}),
         log_radii : {a.log_radii} \cup
                (IF \/ ~a.log_radii.islist
                    \/ a.log_radii.val = Repeat(r, n)
                 THEN {Scalar(r), List(Repeat(r, n))} ELSE {}),
         names : {a.names},
         order : {a.order}]

\* C13: a call made again with the same arguments in another form (ring or
\* fraction field, scalar radius or its n copies, precision omitted or the
\* field's precision cap) returns the instance the first call returned and
\* constructs nothing; that instance is not integral and its base ring is a
\* field.
C13_Interchangeable ==
    Called("TateAlgebra") =>
        /\ ~heap[ret.out]._integral
        /\ is_field(heap[ret.out]._base)
        /\ \A b \in Interchangeable(ret.args[1]) :
              LET again == TateAlgebra(heap, cache, b.base, b.prec,
                                       b.log_radii, b.names, b.order)
              IN  /\ again.err = "none"
                  /\ again.out = ret.out
                  /\ again.heap = heap
                  /\ again.cache = cache

\* with two algebras constructed, a call naming the field, the precision and
\* the list of two equal radii got the first instance back, which has other
\* forms of the same call
C13_Witness ==
    /\ Called("TateAlgebra")
    /\ Len(heap) = 4
    /\ ret.out = 1
    /\ ret.args[1].base.base.fld
    /\ ret.args[1].prec = Some(precision_cap(ret.args[1].base.base))
    /\ ret.args[1].log_radii = List(<<1, 1>>)
    /\ Cardinality(Interchangeable(ret.args[1])) = 8

\* base ring, radii, names and term order of heap[i] and heap[j] are equal
\* and their precision caps are not
AlikeButCap(i, j) ==
    /\ heap[i]._base = heap[j]._base
    /\ heap[i]._log_radii = heap[j]._log_radii
    /\ heap[i]._names = heap[j]._names
    /\ heap[i]._order = heap[j]._order
    /\ heap[i]._cap # heap[j]._cap

\* C14: the precision cap plays no part in the coercion test: a call whose
\* arguments differ from those of an existing algebra in the precision cap
\* only returns another instance, and of two algebras that differ in the
\* precision cap only each accepts coercion from the other.
C14_CapIgnored ==
    /\ Called("TateAlgebra") =>
          \A i \in Constructed :
              (/\ KeyOf(i)[2] # NormalizedKey(ret.args[1])[2]
               /\ \A k \in {1, 3, 4, 5} :
                      KeyOf(i)[k] = NormalizedKey(ret.args[1])[k])
                  => (ret.out # i /\ AlikeButCap(ret.out, i))
    /\ (Called("_coerce_map_from_") /\ ret.R.kind = "alg") =>
          (AlikeButCap(ret.self, ret.R.ref) =>
              /\ ret.self # ret.R.ref
              /\ ret.ans = "True"
              /\ TateAlgebra_coerce_map_from(heap, ret.R.ref,
                                             Alg(ret.self)) = "True")

\* an algebra of precision cap 2 was asked about the algebra of cap 4 that
\* is otherwise alike, both constructed by calls
C14_Witness ==
    /\ Called("_coerce_map_from_")
    /\ ret.R.kind = "alg"
    /\ ret.self \in Constructed
    /\ ret.R.ref \in Constructed
    /\ AlikeButCap(ret.self, ret.R.ref)
    /\ heap[ret.self]._cap = 2
    /\ heap[ret.R.ref]._cap = 4
    /\ ret.ans = "True"

\* C15: a full algebra accepts coercion from its integral twin, the twin
\* accepts none from its full algebra, and each of them accepts coercion
\* from itself.
C15_TwinCoercion ==
    (Called("_coerce_map_from_") /\ ret.R.kind = "alg") =>
        /\ (ret.self \in Constructed
            /\ ret.R.ref = heap[ret.self]._integer_ring)
              => ret.ans = "True"
        /\ (ret.R.ref \in Constructed
            /\ ret.self = heap[ret.R.ref]._integer_ring)
              => ret.ans = "False"
        /\ ret.self = ret.R.ref => ret.ans = "True"

\* the integral twin of a full algebra was asked about that algebra and
\* answered no
C15_Witness ==
    /\ Called("_coerce_map_from_")
    /\ ret.R.kind = "alg"
    /\ ret.R.ref \in Constructed
    /\ ret.self = heap[ret.R.ref]._integer_ring
    /\ ret.self # ret.R.ref
    /\ ret.ans = "False"

====
